---- MODULE Spec2Model ----
(***************************************************************************)
(* Model of the message synchronizer (MsgSyncer, package interaction).     *)
(*                                                                         *)
(* Spec        : the synchronizer after NewMsgSyncer: the DoListener loop  *)
(*               taking commands and running handlePushMsgAndEvent, and    *)
(*               compareSeqsAndTrigger run on a snapshot command.          *)
(* SpecHistory : Spec with two histories kept besides: the cursors as      *)
(*               loaded at start and the seqs handed to the sink so far.   *)
(* SpecFetch   : syncMsgBySeqs applied to a pending seq list, one pass of  *)
(*               its loop per step.                                        *)
(*                                                                         *)
(* SpecServer  : Spec next to the server that assigns the seqs.             *)
(* SpecListener: DoListener with its channel and its context.              *)
(* SpecDB      : the calls on the table of super groups.                   *)
(*                                                                         *)
(* Go maps are functions whose DOMAIN is the set of keys present.  The     *)
(* order of a Go map iteration is not modelled: every sweep of the code    *)
(* reads and writes only the entry of the key it is at, so the result and  *)
(* the per-conversation sequences of calls do not depend on it.            *)
(***************************************************************************)
EXTENDS Integers, Sequences, FiniteSets, TLC

\* ------------------------------------------------------------------ bounds
MaxSeq == 3          \* highest seq a snapshot entry or a message carries
MaxHistorySeq == 2   \* the same, where the histories are kept (SpecHistory)
MaxLoadSeq == 1      \* highest seq the persistent store returns at load
MaxSyncTimes == 2    \* compareSeqsAndTrigger runs per behaviour (syncTimes cap)
MaxSends == 5        \* requests one syncMsgBySeqs call may issue in SpecFetch
MaxPending == 3      \* longest pending seq list given to syncMsgBySeqs
SplitPullMsgNum == 2 \* shard size: constant.SplitPullMsgNum, scaled to the lists above
MaxServerSeq == 1    \* highest seq the server assigns in a conversation (SpecServer)
MaxQueue == 2        \* commands sent on the channel and not yet received (SpecListener)
MaxListenSeq == 1    \* highest seq of a message sent on the channel in SpecListener
MaxRows == 3         \* rows of the table of super groups (SpecDB)

\* ------------------------------------------------------- program constants
retryTimes == 2
defaultPullNums == 1
SuperGroupChatType == 3
GroupChatType == 2

Keys == {"A", "B"}
SessionTypes == {GroupChatType, SuperGroupChatType}
CmdInit == "CmdInit"
CmdReconnect == "CmdReconnect"
CmdConnSuccesss == "CmdConnSuccesss"
CmdMaxSeq == "CmdMaxSeq"
CmdPushMsg == "CmdPushMsg"

\* ---------------------------------------------------------------- helpers
\* m[k] = v on a Go map
Put(m, k, v) == [x \in (DOMAIN m) \cup {k} |-> IF x = k THEN v ELSE m[x]]

\* the zero value a Go map read returns for a missing key
ZeroSyncedSeq == [maxSeqSynced |-> 0, sessionType |-> 0]

\* m.syncedMaxSeqs[k] read without the comma-ok form
Lookup(m, k) == IF k \in DOMAIN m THEN m[k] ELSE ZeroSyncedSeq

EmptyMap == [x \in {} |-> ZeroSyncedSeq]
NoCalls == [k \in Keys |-> <<>>]

VARIABLES
    syncedMaxSeqs,   \* MsgSyncer.syncedMaxSeqs
    syncTimes,       \* MsgSyncer.syncTimes
    loadErr,         \* the error NewMsgSyncer returned
    pc,              \* position of the DoListener goroutine
    cmd,             \* the command being handled
    loadedSeqs,      \* history: syncedMaxSeqs as loadSeq left it
    delivered,       \* history: <<conversation, seq>> handed to the sink so far
    before,          \* history: syncedMaxSeqs when the command was taken
    fetchCalls,      \* history: calls of syncMsgBySeqsInterval in this command
    sinkCalls,       \* history: calls of triggerConversation in this command
    recording,       \* whether loadedSeqs and delivered are kept (SpecHistory)
    fpc,             \* syncMsgBySeqs: position ("idle" outside SpecFetch)
    fSeqsNeedSync,   \* syncMsgBySeqs: the argument seqsNeedSync
    fI,              \* syncMsgBySeqs: the loop index i
    fAllMsgs,        \* syncMsgBySeqs: the result allMsgs
    fErr,            \* syncMsgBySeqs: the result err, once returned
    fSent,           \* history: the requests sent, each with its outcome
    serverMaxSeq,    \* the server: highest seq assigned per conversation (SpecServer)
    ch,              \* PushMsgAndMaxSeqCh: the commands sent and not yet received (SpecListener)
    cancelled,       \* whether m.ctx is done (SpecListener)
    dbRows,          \* the rows of the table of LocalGroup, in Find order (SpecDB)
    dbResult         \* what the last call on the table returned (SpecDB)

syncVars == <<syncedMaxSeqs, syncTimes, loadErr, pc, cmd, loadedSeqs,
              delivered, before, fetchCalls, sinkCalls, recording>>
fetchVars == <<fpc, fSeqsNeedSync, fI, fAllMsgs, fErr, fSent>>
envVars == <<serverMaxSeq, ch, cancelled, dbRows, dbResult>>
vars == <<syncVars, fetchVars, envVars>>

\* ------------------------------------------------ construction (loadSeq)
\* what one query of the persistent store returns
DbResults ==
    {[err |-> FALSE, seq |-> s] : s \in 0..MaxLoadSeq} \cup {[err |-> TRUE, seq |-> 0]}

\* the persistent store as loadSeq sees it: the group list (or its error) and,
\* per group, the answers of the normal and the abnormal max-seq query
DataBases ==
    [groupIDs : {<<>>, <<"A">>, <<"B">>, <<"A", "B">>, <<"B", "A">>},
     listErr  : BOOLEAN,
     normal   : [Keys -> DbResults],
     abnormal : [Keys -> DbResults]]

\* the body of the loop of loadSeq, from the i-th group on
RECURSIVE loadGroups(_, _, _)
loadGroups(db, i, synced) ==
    IF i > Len(db.groupIDs) THEN [synced |-> synced, err |-> FALSE]
    ELSE LET groupID == db.groupIDs[i]
             n == db.normal[groupID]
             a == db.abnormal[groupID]
         IN  IF n.err THEN [synced |-> synced, err |-> TRUE]
             ELSE IF a.err THEN [synced |-> synced, err |-> TRUE]
             ELSE LET maxSeqSynced == IF a.seq > n.seq THEN a.seq ELSE n.seq
                  IN  loadGroups(db, i + 1,
                          Put(synced, groupID,
                              [maxSeqSynced |-> maxSeqSynced,
                               sessionType |-> SuperGroupChatType]))

loadSeq(db) ==
    IF db.listErr THEN [synced |-> EmptyMap, err |-> TRUE]
    ELSE loadGroups(db, 1, EmptyMap)

\* ------------------------------------------------------ the synchronizer
\* The operators below work on a record st of the fields a command changes:
\*   synced, syncTimes : the fields of MsgSyncer
\*   fetchCalls, sinkCalls, delivered : the history of calls made

\* one message (sdkws.MsgData): the fields the synchronizer reads
Msg(groupID, sessionType, seq) ==
    [GroupID |-> groupID, SessionType |-> sessionType, Seq |-> seq]

\* syncMsgBySeqsInterval: returns its named results as they are, (nil, nil)
syncMsgBySeqsInterval(sourceID, sesstionType, syncedMaxSeq, syncedMinSeq) ==
    [partMsgs |-> <<>>, err |-> FALSE]

\* triggerConversation: hands msgs to the conversation channel; the error of
\* TriggerCmdNewMsgCome (failed) is logged and returned
triggerConversation(st, sourceID, msgs, failed) ==
    [st EXCEPT
        !.sinkCalls[sourceID] = Append(@, [msgs |-> msgs, err |-> failed]),
        !.delivered = @ \cup {<<msgs[i].GroupID, msgs[i].Seq>> :
                                i \in {j \in DOMAIN msgs : msgs[j].Seq # 0}}]

\* syncAndTriggerMsgs: the fetch, then one delivery of what it returned
syncAndTriggerMsgs(st, sourceID, sessionType, syncedMaxSeq, maxSeq, failed) ==
    LET r == syncMsgBySeqsInterval(sourceID, sessionType, syncedMaxSeq, maxSeq)
        called == [st EXCEPT !.fetchCalls[sourceID] =
                      Append(@, [sessionType |-> sessionType,
                                 syncedMaxSeq |-> syncedMaxSeq,
                                 maxSeq |-> maxSeq, err |-> r.err])]
    IN  IF r.err THEN [st |-> called, err |-> TRUE]
        ELSE [st |-> triggerConversation(called, sourceID, r.partMsgs, failed),
              err |-> r.err]

\* sync: on success the cursor is overwritten with maxSeq and sessionType
sync(st, sourceID, sessionType, syncedMaxSeq, maxSeq, failed) ==
    LET r == syncAndTriggerMsgs(st, sourceID, sessionType, syncedMaxSeq, maxSeq, failed)
    IN  IF r.err THEN r
        ELSE [st |-> [r.st EXCEPT !.synced =
                         Put(@, sourceID, [maxSeqSynced |-> maxSeq,
                                           sessionType |-> sessionType])],
              err |-> FALSE]

\* triggerReconnect over the keys ks still to visit
RECURSIVE triggerReconnectOver(_, _, _)
triggerReconnectOver(st, ks, failed) ==
    IF ks = {} THEN st
    ELSE LET groupID == CHOOSE k \in ks : TRUE
             syncedSeq == st.synced[groupID]
             next == IF syncedSeq.maxSeqSynced = 0 THEN st
                     ELSE sync(st, groupID, syncedSeq.sessionType, 0,
                               syncedSeq.maxSeqSynced, failed).st
         IN  triggerReconnectOver(next, ks \ {groupID}, failed)

triggerReconnect(st, failed) == triggerReconnectOver(st, DOMAIN st.synced, failed)

\* triggerReconnectFinished: the same sweep as triggerReconnect
triggerReconnectFinished(st, failed) ==
    triggerReconnectOver(st, DOMAIN st.synced, failed)

\* triggerSync over the keys ks still to visit
RECURSIVE triggerSyncOver(_, _, _)
triggerSyncOver(st, ks, failed) ==
    IF ks = {} THEN st
    ELSE LET groupID == CHOOSE k \in ks : TRUE
             syncedSeq == st.synced[groupID]
             next == IF syncedSeq.maxSeqSynced = 0 THEN st
                     ELSE sync(st, groupID, syncedSeq.sessionType,
                               syncedSeq.maxSeqSynced,
                               syncedSeq.maxSeqSynced + defaultPullNums, failed).st
         IN  triggerSyncOver(next, ks \ {groupID}, failed)

triggerSync(st, failed) == triggerSyncOver(st, DOMAIN st.synced, failed)

\* triggerSyncFinished only logs
triggerSyncFinished(st) == st

\* compareEntries with the fetch also issued when the remote maxSeq equals the cursor
RECURSIVE compareEntriesAtLeast(_, _, _, _)
compareEntriesAtLeast(st, newSeqMap, ks, failed) ==
    IF ks = {} THEN st
    ELSE LET sourceID == CHOOSE k \in ks : TRUE
             newSeq == newSeqMap[sourceID]
             next ==
                 IF sourceID \in DOMAIN st.synced
                 THEN LET syncedSeq == st.synced[sourceID]
                      IN  IF newSeq.maxSeq >= syncedSeq.maxSeqSynced
                          THEN sync(st, sourceID, newSeq.sessionType,
                                    syncedSeq.maxSeqSynced, newSeq.maxSeq, failed).st
                          ELSE st
                 ELSE sync(st, sourceID, newSeq.sessionType, 0, newSeq.maxSeq, failed).st
         IN  compareEntriesAtLeast(next, newSeqMap, ks \ {sourceID}, failed)

\* the loop of compareSeqsAndTrigger over the entries ks of newSeqMap still to visit
RECURSIVE compareEntries(_, _, _, _)
compareEntries(st, newSeqMap, ks, failed) ==
    IF ks = {} THEN st
    ELSE LET sourceID == CHOOSE k \in ks : TRUE
             newSeq == newSeqMap[sourceID]
             next ==
                 IF sourceID \in DOMAIN st.synced
                 THEN LET syncedSeq == st.synced[sourceID]
                      IN  IF newSeq.maxSeq > syncedSeq.maxSeqSynced
                          THEN sync(st, sourceID, newSeq.sessionType,
                                    syncedSeq.maxSeqSynced, newSeq.maxSeq, failed).st
                          ELSE st
                 ELSE sync(st, sourceID, newSeq.sessionType, 0, newSeq.maxSeq, failed).st
         IN  compareEntries(next, newSeqMap, ks \ {sourceID}, failed)

\* compareSeqsAndTrigger: the sweep of the directive, the loop over the snapshot,
\* the deferred sweep, syncTimes++.  The type assertion of line 127 panics on a
\* value that is no map[string]Seq.
compareSeqsAndTrigger(st, c, failed) ==
    IF c.Value.type # "SeqMap" THEN [st |-> st, panic |-> TRUE]
    ELSE LET newSeqMap == c.Value.m
             swept == CASE c.Cmd = CmdInit -> triggerSync(st, failed)
                        [] c.Cmd = CmdReconnect -> triggerReconnect(st, failed)
                        [] OTHER -> st
             looped == compareEntries(swept, newSeqMap, DOMAIN newSeqMap, failed)
             counted == [looped EXCEPT !.syncTimes = @ + 1]
             deferred == CASE c.Cmd = CmdInit -> triggerSyncFinished(counted)
                           [] c.Cmd = CmdReconnect -> triggerReconnectFinished(counted, failed)
                           [] OTHER -> counted
         IN  [st |-> deferred, panic |-> FALSE]

\* doConnected is called by handlePushMsgAndEvent and defined in another file of
\* the package; it is taken to leave the fields of the synchronizer alone
doConnected(st) == st

\* pushInOrder with the cursor advanced only when the delivery succeeded
pushInOrderUnlessFailed(st, msg, failed) ==
    LET triggered == triggerConversation(st, msg.GroupID, <<msg>>, failed)
        oldSeq == Lookup(triggered.synced, msg.GroupID)
    IN  IF failed THEN triggered
        ELSE [triggered EXCEPT !.synced =
                 Put(@, msg.GroupID, [oldSeq EXCEPT !.maxSeqSynced = msg.Seq])]

\* lines 195-199: the message is the next expected one
pushInOrder(st, msg, failed) ==
    LET triggered == triggerConversation(st, msg.GroupID, <<msg>>, failed)
        oldSeq == Lookup(triggered.synced, msg.GroupID)
    IN  [triggered EXCEPT !.synced =
            Put(@, msg.GroupID, [oldSeq EXCEPT !.maxSeqSynced = msg.Seq])]

\* pushOutOfOrder with the range started at 0 instead of at the cursor
pushOutOfOrderFromZero(st, msg, failed) ==
    sync(st, msg.GroupID, msg.SessionType, 0, msg.Seq, failed).st

\* line 201: any other seq
pushOutOfOrder(st, msg, failed) ==
    sync(st, msg.GroupID, msg.SessionType,
         Lookup(st.synced, msg.GroupID).maxSeqSynced, msg.Seq, failed).st

\* lines 189-202: the evaluation of the message a command carries
evaluateMsg(st, msg, failed) ==
    IF msg.Seq = 0 THEN triggerConversation(st, msg.GroupID, <<msg>>, failed)
    ELSE IF msg.Seq = Lookup(st.synced, msg.GroupID).maxSeqSynced + 1
         THEN pushInOrder(st, msg, failed)
         ELSE pushOutOfOrder(st, msg, failed)

\* handlePushMsgAndEvent.  Line 175 asserts that the value is a *sdkws.MsgData
\* and panics on any other; for CmdMaxSeq and CmdPushMsg lines 184 and 186 assert
\* a second, different type of the same value and so panic on a *sdkws.MsgData.
handlePushMsgAndEvent(st, c, failed) ==
    IF c.Value.type # "MsgData" THEN [st |-> st, panic |-> TRUE]
    ELSE IF c.Cmd = CmdMaxSeq THEN [st |-> st, panic |-> TRUE]
    ELSE IF c.Cmd = CmdPushMsg THEN [st |-> st, panic |-> TRUE]
    ELSE LET dispatched == IF c.Cmd = CmdConnSuccesss THEN doConnected(st) ELSE st
         IN  [st |-> evaluateMsg(dispatched, c.Value.msg, failed), panic |-> FALSE]

\* ------------------------------------------------------------- commands
MsgValue(msg) == [type |-> "MsgData", msg |-> msg]
SeqMapValue(m) == [type |-> "SeqMap", m |-> m]
OtherValue(t) == [type |-> t]

\* the highest seq of the inputs of this behaviour
SeqLimit == IF recording THEN MaxHistorySeq ELSE MaxSeq

Msgs == {Msg(k, t, s) : k \in Keys, t \in SessionTypes, s \in 0..SeqLimit}

\* a remote snapshot: map[string]Seq (minSeq is never read and is left out)
Snapshots ==
    UNION {[ks -> [maxSeq : 0..SeqLimit, sessionType : SessionTypes]] : ks \in SUBSET Keys}

EmptySnapshot == [x \in {} |-> [maxSeq |-> 0, sessionType |-> 0]]

CmdNames == {CmdInit, CmdReconnect, CmdConnSuccesss, CmdMaxSeq, CmdPushMsg}

\* what may arrive on PushMsgAndMaxSeqCh: every command name with a message,
\* or with a value of one of the other types the producers use
ChannelValues ==
    {MsgValue(m) : m \in Msgs}
    \cup {SeqMapValue(EmptySnapshot), OtherValue("PushMessages"),
          OtherValue("CmdMaxSeqToMsgSync")}

ChannelCmds == [Cmd : CmdNames, Value : ChannelValues]

\* what compareSeqsAndTrigger is called with: init, reconnect, sync by heartbeat
CompareCmds ==
    [Cmd : {CmdInit, CmdReconnect, CmdMaxSeq},
     Value : {SeqMapValue(m) : m \in Snapshots} \cup {OtherValue("CmdMaxSeqToMsgSync")}]

NoCmd == [Cmd |-> "none", Value |-> OtherValue("nil")]

\* the record the operators above work on, from the variables
Current ==
    [synced |-> syncedMaxSeqs, syncTimes |-> syncTimes, fetchCalls |-> fetchCalls,
     sinkCalls |-> sinkCalls, delivered |-> delivered]

Apply(st) ==
    /\ syncedMaxSeqs' = st.synced
    /\ syncTimes' = st.syncTimes
    /\ fetchCalls' = st.fetchCalls
    /\ sinkCalls' = st.sinkCalls
    /\ delivered' = IF recording THEN st.delivered ELSE delivered

\* ------------------------------------------------------------- actions
\* syncMsgBySeqs is not running
FetchIdle ==
    /\ fpc = "idle" /\ fSeqsNeedSync = <<>> /\ fI = 0 /\ fAllMsgs = <<>>
    /\ fErr = FALSE /\ fSent = <<>>

\* no server is modelled
NoServer == [k \in Keys |-> 0]
ServerIdle == serverMaxSeq = NoServer

\* the channel is empty and stays so, the context is never cancelled
ListenIdle == ch = <<>> /\ cancelled = FALSE

\* no table is modelled
NoResult == [op |-> "none"]
DbIdle == dbRows = <<>> /\ dbResult = NoResult

EnvIdle == ServerIdle /\ ListenIdle /\ DbIdle

\* NewMsgSyncer: loadSeq, then the listener is started whatever loadSeq returned
Constructed ==
    /\ \E db \in DataBases :
          LET r == loadSeq(db)
          IN  /\ syncedMaxSeqs = r.synced
              /\ loadedSeqs = IF recording THEN r.synced ELSE EmptyMap
              /\ loadErr = r.err
    /\ syncTimes = 0
    /\ pc = "wait"
    /\ cmd = NoCmd
    /\ delivered = {}
    /\ before = EmptyMap
    /\ fetchCalls = NoCalls
    /\ sinkCalls = NoCalls
    /\ FetchIdle

Init == recording = FALSE /\ Constructed /\ EnvIdle

InitHistory == recording = TRUE /\ Constructed /\ EnvIdle

\* line 115: the command c received at line 114 is handled
Handle(c) ==
    /\ \E failed \in BOOLEAN :
          LET r == handlePushMsgAndEvent(Current, c, failed)
          IN  /\ cmd' = c
              /\ IF r.panic
                 THEN /\ pc' = "crashed"
                      /\ UNCHANGED <<syncedMaxSeqs, syncTimes, fetchCalls, sinkCalls,
                                     delivered>>
                 ELSE /\ pc' = "pushHandled"
                      /\ Apply(r.st)
    /\ before' = syncedMaxSeqs
    /\ UNCHANGED <<loadErr, loadedSeqs, recording, fetchVars>>

\* One iteration of DoListener (lines 112-115): a command is received from
\* PushMsgAndMaxSeqCh and handled; a panic of the handler ends the process.
DoListener ==
    /\ pc = "wait"
    /\ \E c \in ChannelCmds : Handle(c)
    /\ UNCHANGED envVars

\* compareSeqsAndTrigger run on a command, between two commands of the listener
\* (DoListener itself never calls it); the guards keep syncTimes and the cursors
\* within the bounds
CompareSeqsAndTrigger ==
    /\ pc = "wait"
    /\ syncTimes < MaxSyncTimes
    /\ \E c \in CompareCmds, failed \in BOOLEAN :
          LET r == compareSeqsAndTrigger(Current, c, failed)
          IN  /\ c.Cmd = CmdInit =>
                    \A k \in DOMAIN syncedMaxSeqs :
                        syncedMaxSeqs[k].maxSeqSynced + defaultPullNums <= SeqLimit
              /\ cmd' = c
              /\ IF r.panic
                 THEN /\ pc' = "comparePanicked"
                      /\ UNCHANGED <<syncedMaxSeqs, syncTimes, fetchCalls, sinkCalls,
                                     delivered>>
                 ELSE /\ pc' = "compareReturned"
                      /\ Apply(r.st)
    /\ before' = syncedMaxSeqs
    /\ UNCHANGED <<loadErr, loadedSeqs, recording, fetchVars, envVars>>

\* back at the select of DoListener: the record of the last command is dropped
BackToWait ==
    /\ pc \in {"pushHandled", "compareReturned"}
    /\ pc' = "wait"
    /\ cmd' = NoCmd
    /\ before' = EmptyMap
    /\ fetchCalls' = NoCalls
    /\ sinkCalls' = NoCalls
    /\ UNCHANGED <<syncedMaxSeqs, syncTimes, loadErr, loadedSeqs, delivered,
                   recording, fetchVars, envVars>>

Next ==
    \/ DoListener
    \/ CompareSeqsAndTrigger
    \/ BackToWait

Spec == Init /\ [][Next]_vars

\* the same program with the histories loadedSeqs and delivered kept
SpecHistory == InitHistory /\ [][Next]_vars

\* ------------------------------------------------ the server (SpecServer)
\* The synchronizer next to the server that assigns the seqs.  serverMaxSeq[k]
\* is the highest seq assigned in conversation k so far; the store loaded at
\* construction holds only seqs the server assigned, and a message or a
\* snapshot entry carries only a seq the server has assigned.
InitServer ==
    /\ recording = FALSE
    /\ Constructed
    /\ serverMaxSeq \in [Keys -> 0..MaxServerSeq]
    /\ \A k \in DOMAIN syncedMaxSeqs : syncedMaxSeqs[k].maxSeqSynced <= serverMaxSeq[k]
    /\ ListenIdle /\ DbIdle

\* the value of a command names only seqs the server has assigned
FromServer(c) ==
    CASE c.Value.type = "MsgData" -> c.Value.msg.Seq <= serverMaxSeq[c.Value.msg.GroupID]
      [] c.Value.type = "SeqMap" ->
            \A k \in DOMAIN c.Value.m : c.Value.m[k].maxSeq <= serverMaxSeq[k]
      [] OTHER -> TRUE

\* a message is sent in conversation k: the server assigns it the next seq
ServerAssignsSeq ==
    /\ \E k \in Keys :
          /\ serverMaxSeq[k] < MaxServerSeq
          /\ serverMaxSeq' = [serverMaxSeq EXCEPT ![k] = @ + 1]
    /\ UNCHANGED <<syncVars, fetchVars, ch, cancelled, dbRows, dbResult>>

ServerDoListener == DoListener /\ FromServer(cmd')

ServerCompareSeqsAndTrigger == CompareSeqsAndTrigger /\ FromServer(cmd')

NextServer ==
    \/ ServerAssignsSeq
    \/ ServerDoListener
    \/ ServerCompareSeqsAndTrigger
    \/ BackToWait

SpecServer == InitServer /\ [][NextServer]_vars

\* ------------------------------------------- the channel (SpecListener)
\* DoListener with its two sources: the channel PushMsgAndMaxSeqCh, filled by
\* the producers, and the context m.ctx, cancelled by the owner.

\* the commands the producers send: a message of conversation A under
\* CmdConnSuccesss, and the push of the connection layer
ListenCmds ==
    {[Cmd |-> CmdConnSuccesss, Value |-> MsgValue(Msg("A", SuperGroupChatType, s))] :
        s \in 0..MaxListenSeq}
    \cup {[Cmd |-> CmdPushMsg, Value |-> OtherValue("PushMessages")]}

InitListener ==
    /\ recording = FALSE
    /\ Constructed
    /\ ch = <<>>
    /\ cancelled = FALSE
    /\ ServerIdle /\ DbIdle

\* recv with the newest command taken instead of the oldest
recvNewest(q) == [cmd |-> q[Len(q)], rest |-> SubSeq(q, 1, Len(q) - 1)]

\* line 114, cmd := <-m.PushMsgAndMaxSeqCh: a Go channel hands out the values
\* in the order they were sent
recv(q) == [cmd |-> Head(q), rest |-> Tail(q)]

\* a producer sends a command on the channel
SendCmd ==
    /\ Len(ch) < MaxQueue
    /\ \E c \in ListenCmds : ch' = Append(ch, c)
    /\ UNCHANGED <<syncVars, fetchVars, serverMaxSeq, cancelled, dbRows, dbResult>>

\* the owner cancels the context
CancelCtx ==
    /\ ~cancelled
    /\ cancelled' = TRUE
    /\ UNCHANGED <<syncVars, fetchVars, serverMaxSeq, ch, dbRows, dbResult>>

\* lines 113-115: the select takes the case of the channel.  The select of Go
\* chooses among its ready cases at random, so this case may be taken while
\* the context is done.
ReceiveCmd ==
    /\ pc = "wait"
    /\ ch # <<>>
    /\ Handle(recv(ch).cmd)
    /\ ch' = recv(ch).rest
    /\ UNCHANGED <<serverMaxSeq, cancelled, dbRows, dbResult>>

\* lines 116-118: the select takes the case of m.ctx.Done() and DoListener returns
ListenerReturn ==
    /\ pc = "wait"
    /\ cancelled
    /\ pc' = "listenerReturned"
    /\ UNCHANGED <<syncedMaxSeqs, syncTimes, loadErr, cmd, loadedSeqs, delivered,
                   before, fetchCalls, sinkCalls, recording, fetchVars, envVars>>

NextListener ==
    \/ SendCmd
    \/ CancelCtx
    \/ ReceiveCmd
    \/ ListenerReturn
    \/ BackToWait

SpecListener == InitListener /\ [][NextListener]_vars

\* ------------------------------------------ the super group table (SpecDB)
\* The table super_groups of the local data base.  dbRows are its rows in the
\* order Find returns them; a row is a LocalGroup, of which GroupID is kept.
DbGroupIDs == {"A", "B", "C"}

\* the nil slice and the nil error of Go
NilList == <<>>
NilErr == FALSE

\* utils.Wrap: nil for a nil error, else the error with a message added
Wrap(err) == err

\* what a query of the table may do: succeed with all rows, or fail having
\* scanned some of them
FindOutcomes(rows) ==
    {[err |-> NilErr, scanned |-> Len(rows)]}
    \cup {[err |-> TRUE, scanned |-> n] : n \in 0..Len(rows)}

\* lines 10-19
GetJoinedSuperGroupList(rows, found) ==
    LET groupList == SubSeq(rows, 1, found.scanned)
        transfer == [i \in 1..Len(groupList) |-> groupList[i]]
    IN  [list |-> transfer, err |-> Wrap(found.err)]

\* lines 21-31: groupIDList is built and (nil, nil) returned
GetJoinedSuperGroupIDList(rows, found) ==
    LET r == GetJoinedSuperGroupList(rows, found)
    IN  IF r.err # NilErr THEN [list |-> NilList, err |-> Wrap(r.err)]
        ELSE LET groupIDList == [i \in 1..Len(r.list) |-> r.list[i].GroupID]
             IN  [list |-> NilList, err |-> NilErr]

InitDB ==
    /\ recording = FALSE
    /\ syncedMaxSeqs = EmptyMap /\ loadedSeqs = EmptyMap /\ loadErr = FALSE
    /\ syncTimes = 0 /\ pc = "db" /\ cmd = NoCmd /\ delivered = {}
    /\ before = EmptyMap /\ fetchCalls = NoCalls /\ sinkCalls = NoCalls
    /\ FetchIdle
    /\ ServerIdle /\ ListenIdle
    /\ dbRows = <<>>
    /\ dbResult = NoResult

\* lines 33-35: Create adds the row unless it fails; a row of a group already
\* in the table is not added
InsertSuperGroup ==
    /\ \E g \in DbGroupIDs, failed \in BOOLEAN :
          LET present == \E i \in DOMAIN dbRows : dbRows[i].GroupID = g
              err == failed \/ present
          IN  /\ Len(dbRows) < MaxRows \/ err
              /\ dbRows' = IF err THEN dbRows ELSE Append(dbRows, [GroupID |-> g])
              /\ dbResult' = [op |-> "InsertSuperGroup", err |-> Wrap(err)]
    /\ UNCHANGED <<syncVars, fetchVars, serverMaxSeq, ch, cancelled>>

\* lines 36-38: Delete removes every row unless it fails
DeleteAllSuperGroup ==
    /\ \E failed \in BOOLEAN :
          /\ dbRows' = IF failed THEN dbRows ELSE <<>>
          /\ dbResult' = [op |-> "DeleteAllSuperGroup", err |-> Wrap(failed)]
    /\ UNCHANGED <<syncVars, fetchVars, serverMaxSeq, ch, cancelled>>

\* a call of GetJoinedSuperGroupList
CallGetJoinedSuperGroupList ==
    /\ \E found \in FindOutcomes(dbRows) :
          LET r == GetJoinedSuperGroupList(dbRows, found)
          IN  dbResult' = [op |-> "GetJoinedSuperGroupList", list |-> r.list,
                           err |-> r.err]
    /\ UNCHANGED <<syncVars, fetchVars, serverMaxSeq, ch, cancelled, dbRows>>

\* a call of GetJoinedSuperGroupIDList; inner is what its call of
\* GetJoinedSuperGroupList returned
CallGetJoinedSuperGroupIDList ==
    /\ \E found \in FindOutcomes(dbRows) :
          LET r == GetJoinedSuperGroupIDList(dbRows, found)
          IN  dbResult' = [op |-> "GetJoinedSuperGroupIDList", list |-> r.list,
                           err |-> r.err,
                           inner |-> GetJoinedSuperGroupList(dbRows, found)]
    /\ UNCHANGED <<syncVars, fetchVars, serverMaxSeq, ch, cancelled, dbRows>>

NextDB ==
    \/ InsertSuperGroup
    \/ DeleteAllSuperGroup
    \/ CallGetJoinedSuperGroupList
    \/ CallGetJoinedSuperGroupIDList

SpecDB == InitDB /\ [][NextDB]_vars

\* ------------------------------------------------------ the range fetcher
loginUserID == "u"

\* splitSeqs
RECURSIVE splitFrom(_, _, _)
splitFrom(split, seqsNeedSync, i) ==
    IF i >= Len(seqsNeedSync) THEN <<>>
    ELSE LET end == IF i + split > Len(seqsNeedSync) THEN Len(seqsNeedSync)
                    ELSE i + split
         IN  <<SubSeq(seqsNeedSync, i + 1, end)>> \o splitFrom(split, seqsNeedSync, end)

splitSeqs(split, seqsNeedSync) ==
    IF Len(seqsNeedSync) <= split THEN <<seqsNeedSync>>
    ELSE splitFrom(split, seqsNeedSync, 0)

\* getSeqsNeedSync
getSeqsNeedSync(syncedMaxSeq, maxSeq) ==
    [j \in 1..(IF maxSeq > syncedMaxSeq THEN maxSeq - syncedMaxSeq ELSE 0) |->
        syncedMaxSeq + j]

\* the request syncMsgBySeqs builds (lines 238-239): the user ID is set, the
\* seqs of the shard are not
pullMsgReq == [UserID |-> loginUserID, Seqs |-> <<>>]

\* the connection collaborator's answer to a request that got through: the
\* messages of the seqs the request names, in order
ServerReply(req) == [j \in 1..Len(req.Seqs) |-> req.Seqs[j]]

\* the outcomes of one pass of the loop of syncMsgBySeqs:
\*   "error"     SendReqWaitResp returned an error
\*   "undecoded" proto.Unmarshal failed on the response
\*   "ok"        the response was decoded
Outcomes == {"error", "undecoded", "ok"}

\* lines 244-256: one pass of the loop body with the given outcome
loopBody(f, outcome) ==
    LET sent == [f EXCEPT !.sent = Append(@, [i |-> f.i, req |-> pullMsgReq,
                                              outcome |-> outcome])]
    IN  CASE outcome = "error" -> sent
          [] outcome = "undecoded" -> [sent EXCEPT !.i = @ + 1]
          [] OTHER -> [sent EXCEPT !.i = @ + 1,
                                   !.allMsgs = @ \o ServerReply(pullMsgReq)]

seqsList == splitSeqs(SplitPullMsgNum, fSeqsNeedSync)

\* the pending lists syncMsgBySeqs is run on
PendingLists ==
    {getSeqsNeedSync(lo, hi) : lo \in 0..1, hi \in 0..(MaxPending + 1)}

InitFetch ==
    /\ recording = FALSE
    /\ syncedMaxSeqs = EmptyMap /\ loadedSeqs = EmptyMap /\ loadErr = FALSE
    /\ syncTimes = 0 /\ pc = "syncMsgBySeqs" /\ cmd = NoCmd /\ delivered = {}
    /\ before = EmptyMap /\ fetchCalls = NoCalls /\ sinkCalls = NoCalls
    /\ fpc = "loop"
    /\ fSeqsNeedSync \in {l \in PendingLists : Len(l) <= MaxPending}
    /\ fI = 0 /\ fAllMsgs = <<>> /\ fErr = FALSE /\ fSent = <<>>
    /\ EnvIdle

\* one pass of the loop at line 243, while i < len(seqsList)
SendReq ==
    /\ fpc = "loop"
    /\ fI < Len(seqsList)
    /\ Len(fSent) < MaxSends
    /\ \E outcome \in Outcomes :
          LET f == loopBody([i |-> fI, allMsgs |-> fAllMsgs, sent |-> fSent], outcome)
          IN  /\ fI' = f.i
              /\ fAllMsgs' = f.allMsgs
              /\ fSent' = f.sent
    /\ UNCHANGED <<fpc, fSeqsNeedSync, fErr, syncVars, envVars>>

\* line 258: the loop is left and (allMsgs, nil) returned
FetchReturn ==
    /\ fpc = "loop"
    /\ ~(fI < Len(seqsList))
    /\ fpc' = "returned"
    /\ fErr' = FALSE
    /\ UNCHANGED <<fSeqsNeedSync, fI, fAllMsgs, fSent, syncVars, envVars>>

NextFetch ==
    \/ SendReq
    \/ FetchReturn

SpecFetch == InitFetch /\ [][NextFetch]_vars

\* ================================================================ claims
\* the message of the command just handled by handlePushMsgAndEvent
PushedMsg == cmd.Value.msg

\* the cursor of conversation k in the map m (0 for an unknown conversation)
Cursor(m, k) == Lookup(m, k).maxSeqSynced

\* the seqs of the messages of one sink call
SeqsOf(call) == [i \in DOMAIN call.msgs |-> call.msgs[i].Seq]

\* a command has just been handled by a synchronizer whose construction succeeded
Handled == ~loadErr /\ pc \in {"pushHandled", "compareReturned"}

\* C1: the maxSeqSynced of every conversation never decreases from the state
\* before a command to the state after it.
C1_CursorNeverDecreases ==
    Handled =>
        \A k \in DOMAIN before :
            /\ k \in DOMAIN syncedMaxSeqs
            /\ syncedMaxSeqs[k].maxSeqSynced >= before[k].maxSeqSynced

\* C2: every seq above the cursor loaded at start (0 for a conversation unknown
\* at start) and up to the current cursor has been handed to the sink.
C2_NoGapPassesSilently ==
    ~loadErr => \A k \in DOMAIN syncedMaxSeqs :
        \A s \in (Cursor(loadedSeqs, k) + 1)..syncedMaxSeqs[k].maxSeqSynced :
            <<k, s>> \in delivered

\* C3: a snapshot entry with remote maxSeq r above the cursor c makes one fetch
\* of c+1..r, the sink gets exactly those messages in one batch in ascending
\* order, and the cursor is r afterwards (stated for a snapshot that comes with
\* neither the Init nor the Reconnect directive).
C3_GapFetchedAndDelivered ==
    (Handled /\ pc = "compareReturned" /\ cmd.Cmd = CmdMaxSeq) =>
        \A k \in DOMAIN cmd.Value.m :
            LET c == Cursor(before, k)
                r == cmd.Value.m[k].maxSeq
            IN  c < r =>
                  /\ Len(fetchCalls[k]) = 1
                  /\ fetchCalls[k][1].syncedMaxSeq = c
                  /\ fetchCalls[k][1].maxSeq = r
                  /\ Len(sinkCalls[k]) = 1
                  /\ SeqsOf(sinkCalls[k][1]) = getSeqsNeedSync(c, r)
                  /\ Cursor(syncedMaxSeqs, k) = r

\* the number of requests of shard i that ended in a transport error
Failures(i) == Cardinality({j \in DOMAIN fSent : fSent[j].i = i /\ fSent[j].outcome = "error"})

\* C4: a shard whose request fails every time is given up after the retry
\* budget: in a fetch of a non-empty pending list no shard sees more failed
\* requests than the first attempt and retryTimes retries.
C4_ShardGivenUpAfterBudget ==
    Len(fSeqsNeedSync) >= 1 => \A i \in 0..(Len(seqsList) - 1) : Failures(i) <= retryTimes + 1

\* C6: a fetch of a non-empty pending list never returns success while a shard
\* lacks a decoded response (a response that failed to decode is asked for again).
C6_UndecodedShardNotSkipped ==
    (fpc = "returned" /\ ~fErr /\ Len(fSeqsNeedSync) >= 1) =>
        \A i \in 0..(Len(seqsList) - 1) :
            \E j \in DOMAIN fSent : fSent[j].i = i /\ fSent[j].outcome = "ok"

\* C7: a pushed message with 1 <= seq <= cursor leaves the cursor of its
\* conversation as it was and delivers no message to the sink.
C7_LowPushIsNoOp ==
    (Handled /\ pc = "pushHandled" /\ PushedMsg.Seq >= 1
        /\ PushedMsg.Seq <= Cursor(before, PushedMsg.GroupID)) =>
        /\ Cursor(syncedMaxSeqs, PushedMsg.GroupID) = Cursor(before, PushedMsg.GroupID)
        /\ \A k \in Keys : \A i \in DOMAIN sinkCalls[k] : sinkCalls[k][i].msgs = <<>>

\* the message handled was the next expected one of its conversation
InOrderPush ==
    /\ pc = "pushHandled"
    /\ PushedMsg.Seq = Cursor(before, PushedMsg.GroupID) + 1

GapPush ==
    /\ pc = "pushHandled"
    /\ PushedMsg.Seq > Cursor(before, PushedMsg.GroupID) + 1

FetchesFromStart(k, c) ==
    {j \in DOMAIN fetchCalls[k] :
        fetchCalls[k][j].syncedMaxSeq = 0 /\ fetchCalls[k][j].maxSeq = c}

\* C10: under Reconnect every conversation with a non-zero cursor c gets a
\* single fetch of 1..c, and a conversation whose cursor is 0 and which the
\* snapshot does not name gets no fetch.
C10_ReconnectFetchesOnce ==
    (Handled /\ pc = "compareReturned" /\ cmd.Cmd = CmdReconnect) =>
        \A k \in Keys :
            LET c == Cursor(before, k)
            IN  /\ (k \in DOMAIN before /\ c # 0) =>
                      Cardinality(FetchesFromStart(k, c)) = 1
                /\ (c = 0 /\ k \notin DOMAIN cmd.Value.m) => fetchCalls[k] = <<>>

\* the snapshot entries of the command just compared that name a conversation
\* known before the command with a remote maxSeq not above its cursor
UpToDateEntries ==
    {k \in DOMAIN cmd.Value.m \cap DOMAIN before :
        cmd.Value.m[k].maxSeq <= before[k].maxSeqSynced}

\* the number of fetches the sweeps of directive d issue for a cursor c
SweepFetches(d, c) ==
    CASE c = 0 -> 0
      [] d = CmdInit -> 1
      [] d = CmdReconnect -> 2
      [] OTHER -> 0

\* C11: for a snapshot entry of a known conversation whose remote maxSeq is not
\* above the cursor, the loop over the snapshot issues no fetch and no sink call
\* for the conversation and leaves its cursor alone: the only fetches of the
\* conversation are those of the sweeps of the directive, and a command that
\* carries no directive leaves the entry exactly as it was.
C11_UpToDateEntryIsSkipped ==
    (Handled /\ pc = "compareReturned") =>
        \A k \in UpToDateEntries :
            /\ Len(fetchCalls[k]) = SweepFetches(cmd.Cmd, before[k].maxSeqSynced)
            /\ Len(sinkCalls[k]) <= Len(fetchCalls[k])
            /\ cmd.Cmd = CmdMaxSeq =>
                   /\ fetchCalls[k] = <<>>
                   /\ sinkCalls[k] = <<>>
                   /\ syncedMaxSeqs[k] = before[k]

\* C11 witness: a snapshot without directive names a conversation whose cursor
\* is non-zero and equal to the remote maxSeq
C11_Witness ==
    /\ Handled /\ pc = "compareReturned" /\ cmd.Cmd = CmdMaxSeq
    /\ \E k \in UpToDateEntries :
           /\ before[k].maxSeqSynced >= 1
           /\ cmd.Value.m[k].maxSeq = before[k].maxSeqSynced
           /\ syncedMaxSeqs[k] = before[k]

\* the command carries the payload of its kind: a snapshot map for Init and
\* Reconnect, the value the handler of the kind takes (lines 184, 186) or the
\* snapshot resp. the message for CmdMaxSeq and CmdPushMsg, the message line 175
\* asks of every command for CmdConnSuccesss
CarriesItsPayload(c) ==
    CASE c.Cmd \in {CmdInit, CmdReconnect} -> c.Value.type = "SeqMap"
      [] c.Cmd = CmdMaxSeq -> c.Value.type \in {"SeqMap", "CmdMaxSeqToMsgSync"}
      [] c.Cmd = CmdPushMsg -> c.Value.type \in {"MsgData", "PushMessages"}
      [] OTHER -> c.Value.type = "MsgData"

\* C12: the listener never crashes on a command that carries the payload of its
\* kind: whatever the outcome of the delivery, the handling of such a command
\* completes and the loop is back at its wait point.
C12_HandlingNeverCrashes ==
    ~loadErr => ~(pc = "crashed" /\ CarriesItsPayload(cmd))

\* the command carries a remote snapshot to compare: an Init or Reconnect with a
\* snapshot map, a CmdMaxSeq with a snapshot map or with the value of line 184
SnapshotCommand(c) ==
    \/ c.Cmd \in {CmdInit, CmdReconnect, CmdMaxSeq} /\ c.Value.type = "SeqMap"
    \/ c.Cmd = CmdMaxSeq /\ c.Value.type = "CmdMaxSeqToMsgSync"

\* C13: every command the listener takes from the channel that carries a remote
\* snapshot is routed into compareSeqsAndTrigger before the next command is
\* taken: its handling completes and has counted one more run in syncTimes.
C13_SnapshotCommandIsCompared ==
    [][(~loadErr /\ pc = "wait" /\ pc' \in {"pushHandled", "crashed"}
            /\ SnapshotCommand(cmd'))
         => (pc' = "pushHandled" /\ syncTimes' = syncTimes + 1)]_vars

\* C16: when the initial load failed no command is processed against the map
\* that holds only the conversations loaded before the failure.
C16_NoCommandAfterFailedLoad ==
    ~(/\ loadErr
      /\ pc \in {"pushHandled", "compareReturned"}
      /\ DOMAIN before # {}
      /\ DOMAIN before # Keys)

\* C18: the sessionType of the cursor of a conversation known before a command
\* is the same after the command, whatever type the command carries for it.
C18_SessionTypeImmutable ==
    Handled =>
        \A k \in DOMAIN before :
            syncedMaxSeqs[k].sessionType = before[k].sessionType

\* the number of shards of n seqs in shards of k: ceil(n / k)
ShardCount(n, k) == (n + k - 1) \div k

\* the j-th shard (from 1) of the list seqs in shards of k, in order
Shard(seqs, k, j) ==
    SubSeq(seqs, (j - 1) * k + 1, IF j * k > Len(seqs) THEN Len(seqs) ELSE j * k)

\* C17: a fetch of n >= 1 pending seqs in which every request is answered and
\* decoded issues ceil(n / k) requests, the j-th for the j-th shard and
\* carrying the seqs of that shard: k seqs for all but the last, 1..k for the last.
C17_RequestsCarryShards ==
    (/\ fpc = "returned"
     /\ Len(fSeqsNeedSync) >= 1
     /\ \A j \in DOMAIN fSent : fSent[j].outcome = "ok") =>
        /\ Len(fSent) = ShardCount(Len(fSeqsNeedSync), SplitPullMsgNum)
        /\ \A j \in DOMAIN fSent :
               /\ fSent[j].i = j - 1
               /\ seqsList[j] = Shard(fSeqsNeedSync, SplitPullMsgNum, j)
               /\ Len(seqsList[j]) \in 1..SplitPullMsgNum
               /\ j < Len(fSent) => Len(seqsList[j]) = SplitPullMsgNum
               /\ fSent[j].req.Seqs = seqsList[j]

\* C17 without the last conjunct: the partition and the order of the requests
C17_ShardsPartition ==
    (/\ fpc = "returned"
     /\ Len(fSeqsNeedSync) >= 1
     /\ \A j \in DOMAIN fSent : fSent[j].outcome = "ok") =>
        /\ Len(fSent) = ShardCount(Len(fSeqsNeedSync), SplitPullMsgNum)
        /\ \A j \in DOMAIN fSent :
               /\ fSent[j].i = j - 1
               /\ seqsList[j] = Shard(fSeqsNeedSync, SplitPullMsgNum, j)
               /\ Len(seqsList[j]) \in 1..SplitPullMsgNum
               /\ j < Len(fSent) => Len(seqsList[j]) = SplitPullMsgNum

\* C19: the cursor of a conversation never exceeds the highest seq the server
\* has assigned in it (the cursors loaded at start are seqs the server
\* assigned): the probes of an Init directive do not push it past that seq.
C19_CursorWithinServerSeq ==
    ~loadErr =>
        \A k \in DOMAIN syncedMaxSeqs :
            syncedMaxSeqs[k].maxSeqSynced <= serverMaxSeq[k]

\* C14: once the context is cancelled the loop takes no further command: no
\* step from a wait point reached with the context done receives a command,
\* even when commands are pending.
C14_NoReceiveAfterCancel ==
    [][~(cancelled /\ pc = "wait" /\ pc' \in {"pushHandled", "crashed"})]_vars

\* C15: commands are received one at a time and in the order they were sent: a
\* command leaves the channel only at the wait point, it is the oldest one
\* pending, a sent command queues behind the pending ones, and syncedMaxSeqs
\* is written only by the step that handles the received command.
C15_SerialInArrivalOrder ==
    [][/\ Len(ch') < Len(ch) =>
              /\ pc = "wait" /\ pc' \in {"pushHandled", "crashed"}
              /\ cmd' = Head(ch) /\ ch' = Tail(ch)
       /\ Len(ch') > Len(ch) =>
              /\ SubSeq(ch', 1, Len(ch)) = ch
              /\ syncedMaxSeqs' = syncedMaxSeqs /\ pc' = pc /\ cmd' = cmd
       /\ cmd' \notin {cmd, NoCmd} => pc = "wait"
       /\ syncedMaxSeqs' # syncedMaxSeqs =>
              /\ pc = "wait" /\ pc' = "pushHandled"
              /\ ch # <<>> /\ cmd' = Head(ch)]_vars

\* C15 witness: a command has been handled and has written the cursor while a
\* different command, sent after it, is still pending
C15_Witness ==
    /\ pc = "pushHandled"
    /\ syncedMaxSeqs # before
    /\ ch # <<>>
    /\ ch[1] # cmd

\* C20: a call of GetJoinedSuperGroupIDList whose GetJoinedSuperGroupList
\* succeeded returns a nil error and the GroupIDs of the groups of that list,
\* in its order; one whose GetJoinedSuperGroupList failed returns a nil list
\* and a non-nil error.
C20_IDListOfJoinedGroups ==
    dbResult.op = "GetJoinedSuperGroupIDList" =>
        IF dbResult.inner.err = NilErr
        THEN /\ dbResult.err = NilErr
             /\ dbResult.list =
                    [i \in 1..Len(dbResult.inner.list) |-> dbResult.inner.list[i].GroupID]
        ELSE /\ dbResult.list = NilList
             /\ dbResult.err # NilErr

====
